---- MODULE Spec2Model ----
(***************************************************************************)
(* Task orchestration of the oagi-lux-samples examples.                    *)
(*                                                                         *)
(* Three example programs drive the same loop:                             *)
(*   "qa"      software_qa_with_gemini_vlm_analysis.py: QATaskerAgent,     *)
(*             whose execute() is the loop plus a check after every todo   *)
(*   "amazon"  amazon_scraping/amazon_scraping.py: TaskerAgent, one call   *)
(*   "nuclear" software_qa_with_nuclear/streamlit_app.py: TaskerAgent      *)
(*             called through a tenacity @retry wrapper                    *)
(* The loop is QATaskerAgent.execute (the one execute() the repository     *)
(* holds); the ledger, the per-todo step loop and the exporter live in the *)
(* oagi package and are modelled from the specification.                   *)
(***************************************************************************)
EXTENDS Integers, Sequences, FiniteSets, TLC

\* ------------------------------------------------------------- bounds
MaxTodos == 3
MaxStepsBound == 3

\* ---------------------------------------------------------- constants
\* stop_after_attempt(3)
StopAfterAttempt == 3
\* wait_exponential(multiplier=1, min=4, max=10)
WaitMultiplier == 1
WaitMin == 4
WaitMax == 10

VARIABLES
    app,              \* which example program runs
    todos,            \* number of todos handed to set_task
    max_steps,        \* the --max_steps / "Max Steps" input
    status,           \* memory.todos[i].status, i in 0..todos-1
    pc,               \* position of control
    attempt,          \* calls of tasker.execute made so far
    todo_index,       \* the todo _prepare returned (-1: none yet)
    steps,            \* steps run for the current todo
    run_outcome,      \* how the todo runner ended: true, false, TodoFailure
    success,          \* what _execute_todo returned
    total_steps,      \* history: steps run since the program started
    overall_success,  \* execute()'s local
    exc,              \* the exception in flight or caught ("none")
    result,           \* what the caller of execute / execute_with_retry got
    observer,         \* SplitEvents held by the AsyncAgentObserver
    emitted,          \* history: every on_event call, in call order
    first_todo,       \* history: per attempt, the first todo it started
    stepLog,          \* history: step outcomes of each todo's last execution
    waits,            \* history: the backoff waits slept, in order
    raised,           \* history: the exceptions that left execute(), in order
    qa_result,        \* QATaskerAgent.qa_result: todos with a stored answer
    report            \* the file observer.export wrote (written: it exists)

vars == <<app, todos, max_steps, status, pc, attempt, todo_index, steps, success,
          overall_success, exc, result, observer, emitted, first_todo, stepLog,
          waits, raised, qa_result, report, run_outcome, total_steps>>

Apps == {"qa", "amazon", "nuclear"}
TodoStatus == {"pending", "in_progress", "completed", "skipped"}

\* Collaborator failures of one step (ImageProvider, ModelClient, ActionHandler).
StepFailures == {"CaptureUnavailable", "InferenceTransient", "InferencePermanent",
                 "DispatchFailure"}
StepOutcomes == {"not_done", "done"} \cup StepFailures

\* Exceptions that can leave execute(). "cancel" stands for the BaseExceptions
\* that are no Exception (KeyboardInterrupt, asyncio.CancelledError).
Faults == {"fault", "cancel"}
VerifyErrors == {"transient", "permanent"} \cup Faults

Indices == 0 .. (todos - 1)

\* ------------------------------------------------------------- ledger
Pending(st) == {i \in DOMAIN st : st[i] = "pending"}

Min(S) == CHOOSE x \in S : \A y \in S : x <= y

\* next_pending(): the lowest-index todo still pending, -1 for none
next_pending(st) == IF Pending(st) = {} THEN -1 ELSE Min(Pending(st))

mark_in_progress(st, i) == [st EXCEPT ![i] = "in_progress"]
mark_completed(st, i) == [st EXCEPT ![i] = "completed"]
mark_skipped(st, i) == [st EXCEPT ![i] = "skipped"]

\* status_summary(): status -> count
status_summary(st) ==
    [s \in TodoStatus |-> Cardinality({i \in DOMAIN st : st[i] = s})]

\* set_task(task, todos): a fresh ledger, every todo pending
set_task(n) == [i \in 0 .. (n - 1) |-> "pending"]

\* -------------------------------------------------------------- events
SplitEvent(kind, i) == <<kind, i>>

\* observer.on_event(event): append
on_event(sink, e) == Append(sink, e)

\* ------------------------------------------------------- configuration
\* (mutant) the tasker is given one step more than asked for
tasker_max_steps_plus_one == max_steps + 1

\* (mutant) the tasker is given twice the steps asked for
tasker_max_steps_doubled == 2 * max_steps

\* (mutant) the tasker is given one step less than asked for
tasker_max_steps_minus_one == max_steps - 1

\* TaskerAgent(..., max_steps=args.max_steps, ...)
tasker_max_steps == max_steps

\* QATaskerAgent overrides execute() with the checks; TaskerAgent has none
has_checkers == app = "qa"

Init ==
    /\ app \in Apps
    \* the scripts hold a fixed, non-empty todo list; the streamlit app takes
    \* the lines of a text area, which may be none
    /\ todos \in (IF app = "nuclear" THEN 0 ELSE 1) .. MaxTodos
    /\ max_steps \in 1 .. MaxStepsBound
    /\ status = set_task(todos)
    /\ pc = "call"
    /\ attempt = 0
    /\ todo_index = -1
    /\ steps = 0
    /\ run_outcome = "none"
    /\ success = FALSE
    /\ total_steps = 0
    /\ overall_success = FALSE
    /\ exc = "none"
    /\ result = "none"
    /\ observer = <<>>
    /\ emitted = <<>>
    /\ first_todo = <<>>
    /\ stepLog = [i \in 0 .. (todos - 1) |-> <<>>]
    /\ waits = <<>>
    /\ raised = <<>>
    /\ qa_result = {}
    /\ report = [written |-> FALSE, events |-> <<>>]

\* ---------------------------------------------- QATaskerAgent.execute
\* (mutant) every attempt calls set_task again
ledger_reset_on_call(st) == set_task(todos)

\* execute_with_retry awaits tasker.execute only: set_task is called once,
\* before the wrapper, so an attempt finds the ledger as the last one left it.
ledger_on_call(st) == st

\* The caller (main, or execute_with_retry) awaits tasker.execute(...).
CallExecute ==
    /\ pc = "call"
    /\ attempt' = attempt + 1
    /\ status' = ledger_on_call(status)
    /\ overall_success' = TRUE
    /\ first_todo' = Append(first_todo, -1)
    /\ pc' = "prepare"
    /\ UNCHANGED <<app, todos, max_steps, todo_index, steps, success, exc,
                   result, observer, emitted, stepLog, waits, qa_result, report,
                   raised, run_outcome,
                   total_steps>>

\* todo_info = self._prepare(); if todo_info is None: break
Prepare ==
    /\ pc = "prepare"
    /\ LET i == next_pending(status) IN
         IF i = -1
         THEN /\ pc' = "summary"
              /\ UNCHANGED <<status, todo_index, steps, stepLog, first_todo,
                             run_outcome>>
         ELSE /\ status' = mark_in_progress(status, i)
              /\ todo_index' = i
              /\ steps' = 0
              /\ run_outcome' = "none"
              /\ stepLog' = [stepLog EXCEPT ![i] = <<>>]
              /\ first_todo' = IF first_todo[attempt] = -1
                               THEN [first_todo EXCEPT ![attempt] = i]
                               ELSE first_todo
              /\ pc' = "start_event"
    /\ UNCHANGED <<app, todos, max_steps, attempt, success, overall_success, exc,
                   result, observer, emitted, waits, qa_result, report, raised,
                   total_steps>>

\* await self.step_observer.on_event(SplitEvent(label="Start of todo ..."))
StartEvent ==
    /\ pc = "start_event"
    /\ observer' = on_event(observer, SplitEvent("start", todo_index))
    /\ emitted' = Append(emitted, SplitEvent("start", todo_index))
    /\ pc' = "execute_todo"
    /\ UNCHANGED <<app, todos, max_steps, status, attempt, todo_index, steps,
                   success, overall_success, exc, result, first_todo, stepLog,
                   waits, qa_result, report, raised, run_outcome,
                   total_steps>>

\* ------------------------------------------- TaskerAgent._execute_todo
\* The todo runner: at most tasker_max_steps steps for one todo.
budget_left(n) == n < tasker_max_steps

\* One step: capture, decide, dispatch. The first "done" completes the todo
\* (the runner returns true); a collaborator failure ends the runner with a
\* TodoFailure, which is absorbed into a False return of _execute_todo.
Step ==
    /\ pc = "execute_todo"
    /\ budget_left(steps)
    /\ \E o \in StepOutcomes :
         /\ stepLog' = [stepLog EXCEPT ![todo_index] = Append(@, o)]
         /\ steps' = steps + 1
         /\ total_steps' = total_steps + 1
         /\ IF o = "done"
            THEN /\ status' = mark_completed(status, todo_index)
                 /\ run_outcome' = "true"
                 /\ success' = TRUE
                 /\ pc' = "end_event"
            ELSE IF o \in StepFailures
            THEN /\ status' = mark_skipped(status, todo_index)
                 /\ run_outcome' = "TodoFailure"
                 /\ success' = FALSE
                 /\ pc' = "end_event"
            ELSE /\ UNCHANGED <<status, run_outcome, success, pc>>
    /\ UNCHANGED <<app, todos, max_steps, attempt, todo_index, overall_success,
                   exc, result, observer, emitted, first_todo, waits, qa_result,
                   report, raised>>

\* The budget is used up and no step reported completion: return False.
Exhausted ==
    /\ pc = "execute_todo"
    /\ ~budget_left(steps)
    /\ status' = mark_skipped(status, todo_index)
    /\ run_outcome' = "false"
    /\ success' = FALSE
    /\ pc' = "end_event"
    /\ UNCHANGED <<app, todos, max_steps, attempt, todo_index, steps,
                   overall_success, exc, result, observer, emitted, first_todo,
                   stepLog, waits, qa_result, report, raised, total_steps>>

\* A programming-error fault or a cancellation leaves _execute_todo and, there
\* being no handler in execute(), leaves execute() too.
TodoFault ==
    /\ pc = "execute_todo"
    /\ \E k \in Faults : exc' = k /\ raised' = Append(raised, k)
    /\ pc' = "exec_raised"
    /\ UNCHANGED <<app, todos, max_steps, status, attempt, todo_index, steps,
                   success, overall_success, result, observer, emitted,
                   first_todo, stepLog, waits, qa_result, report, run_outcome,
                   total_steps>>

\* (mutant) break after every todo
continue_after_never(ok) == FALSE

\* (mutant) no break after a failed todo
continue_after_always(ok) == TRUE

\* if not success: ...; break
continue_after(ok) == ok

\* (mutant) a failed todo leaves overall_success as it was
failed_overall_kept(ok, overall) == overall

\* if not success: overall_success = False
failed_overall(ok, overall) == IF ok THEN overall ELSE FALSE

\* (mutant) the "End of todo" event only after a successful todo
emits_end_on_success(ok) == ok

\* (mutant) the "End of todo" event only after a failed todo
emits_end_on_failure(ok) == ~ok

\* The "End of todo" event is emitted whatever _execute_todo returned.
emits_end(ok) == TRUE

\* await on_event(SplitEvent("End of todo ...")); if not success: ...; break
EndEvent ==
    /\ pc = "end_event"
    /\ IF emits_end(success)
       THEN /\ observer' = on_event(observer, SplitEvent("end", todo_index))
            /\ emitted' = Append(emitted, SplitEvent("end", todo_index))
       ELSE UNCHANGED <<observer, emitted>>
    /\ overall_success' = failed_overall(success, overall_success)
    /\ pc' = IF ~continue_after(success) THEN "summary"
             ELSE IF has_checkers THEN "verify" ELSE "prepare"
    /\ UNCHANGED <<app, todos, max_steps, status, attempt, todo_index, steps,
                   success, exc, result, first_todo, stepLog, waits, qa_result,
                   report, raised, run_outcome,
                   total_steps>>

\* (mutant) the answer is not stored
store_nothing(q, i) == q

\* self.qa_result[self.list_of_checkers[todo_index]] = result
store_answer(q, i) == q \cup {i}

\* last_screenshot = await image_provider(); result = analyze_screenshot(...);
\* self.qa_result[checker] = result. Either call may raise; nothing catches it.
Verify ==
    /\ pc = "verify"
    /\ \/ /\ qa_result' = store_answer(qa_result, todo_index)
          /\ pc' = "prepare"
          /\ UNCHANGED <<exc, raised>>
       \/ /\ \E k \in VerifyErrors : exc' = k /\ raised' = Append(raised, k)
          /\ pc' = "exec_raised"
          /\ UNCHANGED qa_result
    /\ UNCHANGED <<app, todos, max_steps, status, attempt, todo_index, steps,
                   success, overall_success, result, observer, emitted,
                   first_todo, stepLog, waits, report, run_outcome,
                   total_steps>>

\* ----------------------------------------- execute_with_retry (tenacity)
RECURSIVE Pow2(_)
Pow2(n) == IF n <= 0 THEN 1 ELSE 2 * Pow2(n - 1)

Max2(a, b) == IF a >= b THEN a ELSE b
Min2(a, b) == IF a <= b THEN a ELSE b

\* (mutant) retry=retry_if_exception_type(BaseException)
retry_if_base_exception(e) == TRUE

\* retry=retry_if_exception_type(Exception)
retry_if_exception_type(e) == e # "cancel"

\* (mutant) the stop test is off by one
stop_after_attempt_late(n) == n >= StopAfterAttempt + 1

\* stop=stop_after_attempt(3)
stop_after_attempt(n) == n >= StopAfterAttempt

\* (mutant) the exponential wait without its min
wait_exponential_no_min(n) == Min2(WaitMultiplier * Pow2(n - 1), WaitMax)

\* wait=wait_exponential(multiplier=1, min=4, max=10), after attempt n:
\* max(max(0, min), min(multiplier * 2 ** (n - 1), max))
wait_exponential(n) ==
    Max2(Max2(0, WaitMin), Min2(WaitMultiplier * Pow2(n - 1), WaitMax))

\* reraise=True: when the attempts are used up the last exception is raised
\* as it is, not wrapped in a tenacity.RetryError
reraise == TRUE

\* Only the streamlit app of software_qa_with_nuclear wraps the call in @retry.
has_retry == app = "nuclear"

\* (mutant) retry=retry_if_result(lambda ok: not ok)
retry_if_result_false(ok) == ~ok

\* The decorator's retry= is retry_if_exception_type(Exception) alone: an
\* attempt that returns is never retried, whatever it returned.
retry_on_result(ok) == FALSE

\* status_summary = ...; return overall_success, self.qa_result
Return ==
    /\ pc = "summary"
    /\ IF /\ has_retry
          /\ retry_on_result(overall_success)
          /\ ~stop_after_attempt(attempt)
       THEN /\ waits' = Append(waits, wait_exponential(attempt))
            /\ pc' = "call"
            /\ UNCHANGED result
       ELSE /\ result' = "returned"
            /\ pc' = "app_ok"
            /\ UNCHANGED waits
    /\ UNCHANGED <<app, todos, max_steps, status, attempt, todo_index, steps,
                   success, overall_success, exc, observer, emitted, first_todo,
                   stepLog, qa_result, report, raised, run_outcome,
                   total_steps>>

\* tasker.execute raised. Under @retry: an exception the predicate rejects is
\* re-raised; so is the last attempt's (reraise=True); otherwise sleep and
\* call tasker.execute again, on the same tasker.
ExecuteRaised ==
    /\ pc = "exec_raised"
    /\ IF /\ has_retry
          /\ retry_if_exception_type(exc)
          /\ ~stop_after_attempt(attempt)
       THEN /\ waits' = Append(waits, wait_exponential(attempt))
            /\ pc' = "call"
            /\ UNCHANGED exc
       ELSE /\ pc' = "app_except"
            /\ exc' = IF has_retry /\ retry_if_exception_type(exc) /\ ~reraise
                      THEN "RetryError" ELSE exc
            /\ UNCHANGED waits
    /\ UNCHANGED <<app, todos, max_steps, status, attempt, todo_index, steps,
                   success, overall_success, result, observer, emitted,
                   first_todo, stepLog, qa_result, report, raised, run_outcome,
                   total_steps>>

\* --------------------------------------------------------------- main
\* observer.export("html", output_file): the call hands over a format and a
\* path, and the observer has only ever been given events; the ledger is not
\* passed to it. The file holds the observer's events in order.
export(sink) == [written |-> TRUE, events |-> sink]

\* (mutant) a new AsyncAgentObserver() is exported
fresh_observer == <<>>

\* The observer exported is the one handed to the tasker as step_observer.
exported_observer == observer

\* except Exception as e: ...
except_Exception(e) == e # "cancel"

\* The try body after execute returned: print the summary and the statuses. The
\* streamlit app exports here, inside the try; the scripts export after it.
AppOk ==
    /\ pc = "app_ok"
    /\ IF has_retry
       THEN /\ report' = export(exported_observer)
            /\ pc' = "done"
       ELSE /\ pc' = IF has_checkers THEN "app_final_check" ELSE "app_export"
            /\ UNCHANGED report
    /\ UNCHANGED <<app, todos, max_steps, status, attempt, todo_index, steps,
                   success, overall_success, exc, result, observer, emitted,
                   first_todo, stepLog, waits, qa_result, raised, run_outcome,
                   total_steps>>

\* The exception reaches the try of main / execute_task.
AppExcept ==
    /\ pc = "app_except"
    /\ result' = "raised"
    /\ pc' = IF ~except_Exception(exc) THEN "crashed"
             ELSE IF has_retry THEN "done"
             ELSE IF has_checkers THEN "app_final_check" ELSE "app_export"
    /\ UNCHANGED <<app, todos, max_steps, status, attempt, todo_index, steps,
                   success, overall_success, exc, observer, emitted, first_todo,
                   stepLog, waits, qa_result, report, raised, run_outcome,
                   total_steps>>

\* software_qa main, after the try: one more screenshot and VLM question,
\* outside any handler.
FinalCheck ==
    /\ pc = "app_final_check"
    /\ \/ pc' = "app_export"
       \/ pc' = "crashed"
    /\ UNCHANGED <<app, todos, max_steps, status, attempt, todo_index, steps,
                   success, overall_success, exc, result, observer, emitted,
                   first_todo, stepLog, waits, qa_result, report, raised,
                   run_outcome, total_steps>>

\* observer.export("html", output_file) after the try/except of main
AppExport ==
    /\ pc = "app_export"
    /\ report' = export(exported_observer)
    /\ pc' = "done"
    /\ UNCHANGED <<app, todos, max_steps, status, attempt, todo_index, steps,
                   success, overall_success, exc, result, observer, emitted,
                   first_todo, stepLog, waits, qa_result, raised, run_outcome,
                   total_steps>>

Next ==
    \/ CallExecute
    \/ Prepare
    \/ StartEvent
    \/ Step
    \/ Exhausted
    \/ TodoFault
    \/ EndEvent
    \/ Verify
    \/ Return
    \/ ExecuteRaised
    \/ AppOk
    \/ AppExcept
    \/ FinalCheck
    \/ AppExport

Spec == Init /\ [][Next]_vars

\* The program is one sequential flow (asyncio.run of one coroutine) and every
\* collaborator call answers or fails: a step that can be taken is taken.
FairSpec == Spec /\ WF_vars(Next)

\* ===================================================================
\* Claims
\* ===================================================================
Last(s) == s[Len(s)]

AllNotDone(s) == \A k \in DOMAIN s : s[k] = "not_done"

\* n-1 steps "not_done", then "done" on step n
DoneOnStep(s, n) ==
    /\ Len(s) = n
    /\ s[n] = "done"
    /\ \A k \in 1 .. (n - 1) : s[k] = "not_done"

AllCompleted == \A i \in Indices : status[i] = "completed"

\* C1: for a non-empty todo list, when execute() has returned and every todo's
\* first step reported completion (no step of the run reported anything else
\* and no attempt raised), overall_success is true and every todo is completed.
C1_AllFirstStepDone ==
    (/\ result = "returned"
     /\ todos >= 1
     /\ \/ \A i \in Indices : stepLog[i] = <<"done">>
        \/ /\ attempt = 1
           /\ \A i \in Indices : stepLog[i] \in {<<>>, <<"done">>})
    => (overall_success /\ AllCompleted)

C1_Witness ==
    /\ result = "returned"
    /\ todos >= 2
    /\ \A i \in Indices : stepLog[i] = <<"done">>
    /\ overall_success
    /\ AllCompleted

\* C2: when execute() has returned without any exception in the run and todo i
\* used up its step budget (max_steps steps, none reporting completion), todos
\* 0..i-1 are completed, todo i is skipped, todos i+1.. are still pending and
\* overall_success is false.
C2_ExhaustedStopsRun ==
    \A i \in Indices :
        (/\ result = "returned"
         /\ raised = <<>>
         /\ Len(stepLog[i]) = max_steps
         /\ AllNotDone(stepLog[i]))
        => /\ \A j \in Indices : j < i => status[j] = "completed"
           /\ status[i] = "skipped"
           /\ \A j \in Indices :
                  j > i => (status[j] = "pending" /\ stepLog[j] = <<>>)
           /\ ~overall_success

C2_Witness ==
    /\ result = "returned"
    /\ raised = <<>>
    /\ todos = 3
    /\ max_steps >= 2
    /\ status[0] = "completed"
    /\ Len(stepLog[1]) = max_steps /\ AllNotDone(stepLog[1])
    /\ status[1] = "skipped"
    /\ status[2] = "pending"
    /\ ~overall_success

\* C3: budget boundary. A todo never runs more than max_steps steps; one whose
\* completion signal arrives exactly on step max_steps is completed; one with
\* max_steps steps and no completion signal is, once its runner has returned,
\* skipped (step max_steps + 1 is never run).
C3_BudgetBoundary ==
    \A i \in Indices :
        /\ Len(stepLog[i]) <= max_steps
        /\ DoneOnStep(stepLog[i], max_steps) => status[i] = "completed"
        /\ (/\ Len(stepLog[i]) = max_steps
            /\ AllNotDone(stepLog[i])
            /\ status[i] # "in_progress") => status[i] = "skipped"

C3_Witness ==
    /\ todos >= 2
    /\ max_steps >= 2
    /\ DoneOnStep(stepLog[0], max_steps) /\ status[0] = "completed"
    /\ Len(stepLog[1]) = max_steps /\ AllNotDone(stepLog[1])
    /\ status[1] = "skipped"

\* A collaborator call failed in the last step of the current todo.
StepFailed ==
    /\ todo_index >= 0
    /\ stepLog[todo_index] # <<>>
    /\ Last(stepLog[todo_index]) \in StepFailures

FirstCallTransient ==
    /\ todos >= 1
    /\ stepLog[0] = <<"InferenceTransient">>
    /\ \A i \in Indices : i > 0 =>
           \A k \in DOMAIN stepLog[i] : stepLog[i][k] \notin StepFailures

\* C6: under @retry (3 attempts), when the model client fails with a transient
\* error on the first call of the run and succeeds afterwards, the wrapper
\* returns overall_success = true with every todo completed, as in a run
\* without failure, and every attempt starts with todo 0.
C6_RetryIdempotent ==
    (has_retry /\ pc = "done" /\ FirstCallTransient)
    => /\ result = "returned"
       /\ overall_success
       /\ AllCompleted
       /\ \A a \in DOMAIN first_todo : first_todo[a] = 0

\* The k-th exception that left execute() has been dealt with by the wrapper.
Handled(k) == k < Len(raised) \/ pc # "exec_raised"

\* C7 as stated: after a permanent failure or a programming-error fault leaves
\* execute(), the wrapper makes no further attempt and sleeps no backoff wait.
C7_FaultNotRetried ==
    has_retry =>
        \A k \in DOMAIN raised :
            (raised[k] \in {"permanent", "fault"} /\ Handled(k))
            => (attempt = k /\ Len(waits) = k - 1 /\ pc # "call")

\* C7 amended: the predicate is retry_if_exception_type(Exception). An
\* exception that is no Exception (a cancellation) is propagated after that
\* single attempt, with no further call of execute() and no wait; every
\* Exception, a permanent failure or a fault included, is retried while fewer
\* than 3 attempts were made.
C7_NonExceptionPropagates ==
    has_retry =>
        \A k \in DOMAIN raised :
            /\ (raised[k] = "cancel" /\ Handled(k))
               => /\ attempt = k
                  /\ Len(raised) = k
                  /\ Len(waits) = k - 1
                  /\ pc \in {"app_except", "crashed"}
                  /\ exc = "cancel"
            /\ (raised[k] # "cancel" /\ k < StopAfterAttempt /\ Handled(k))
               => /\ Len(waits) >= k
                  /\ attempt > k \/ pc = "call"

C7_Witness ==
    /\ has_retry
    /\ pc = "crashed"
    /\ raised = <<"fault", "cancel">>
    /\ attempt = 2
    /\ Len(waits) = 1

\* C8: execute() is called at most 3 times under @retry (once without it);
\* when every attempt raised a retryable exception, the exception of the last
\* attempt reaches the caller unchanged, and no attempt or wait follows it.
C8_AtMostMaxAttempts ==
    /\ attempt <= (IF has_retry THEN StopAfterAttempt ELSE 1)
    /\ Len(raised) <= attempt
    /\ (/\ has_retry
        /\ Len(raised) = StopAfterAttempt
        /\ \A k \in DOMAIN raised : raised[k] # "cancel"
        /\ pc # "exec_raised")
       => /\ exc = raised[StopAfterAttempt]
          /\ attempt = StopAfterAttempt
          /\ Len(waits) = StopAfterAttempt - 1
          /\ pc \in {"app_except", "done"}
          /\ pc = "done" => result = "raised"

C8_Witness ==
    /\ has_retry
    /\ pc = "done"
    /\ result = "raised"
    /\ raised = <<"fault", "fault", "fault">>
    /\ exc = "fault"
    /\ attempt = 3
    /\ Len(waits) = 2

\* C9 as stated: the k-th wait is min(base_delay * 2^(k-1), max_delay), with
\* no lower floor.
C9_WaitWithoutFloor ==
    \A k \in DOMAIN waits : waits[k] = Min2(1 * Pow2(k - 1), 10)

\* C9 amended: the k-th wait, after failed attempt k < 3, is
\* max(4, min(1 * 2^(k-1), 10)) seconds: wait_exponential's min = 4 is a floor,
\* so both waits are 4 seconds; no wait is longer than 10.
C9_WaitWithFloor ==
    /\ \A k \in DOMAIN waits :
          /\ waits[k] = Max2(4, Min2(1 * Pow2(k - 1), 10))
          /\ waits[k] <= 10
    /\ pc = "call" => Len(waits) = attempt
    /\ pc # "call" => Len(waits) = Max2(attempt - 1, 0)

C9_Witness ==
    /\ has_retry
    /\ waits = <<4, 4>>
    /\ attempt = 3

InProgress == {i \in Indices : status[i] = "in_progress"}

\* C11: in every reachable state, between retry attempts and after the run
\* included, at most one todo of the ledger is in_progress.
C11_OneInProgress == Cardinality(InProgress) <= 1

\* C12: statuses only move forward. No step of the run, a retry attempt
\* included, puts a todo that has left pending back to pending, and a completed
\* or skipped todo never changes status again.
C12_StatusForward ==
    [][\A i \in Indices :
          /\ status[i] # "pending" => status'[i] # "pending"
          /\ status[i] \in {"completed", "skipped"}
                => status'[i] = status[i]]_vars

C12_Witness ==
    /\ has_retry
    /\ attempt = 2
    /\ todos = 3
    /\ status = (0 :> "completed" @@ 1 :> "in_progress" @@ 2 :> "skipped")

\* C13: for one todo the runner runs at most max_steps steps, runs no step
\* after the first one that reports completion (it returns true then), and
\* returns false exactly when max_steps steps ran and none reported completion.
C13_TodoRunner ==
    /\ steps <= max_steps
    /\ \A i \in Indices :
          /\ Len(stepLog[i]) <= max_steps
          /\ \A k \in 1 .. (Len(stepLog[i]) - 1) : stepLog[i][k] = "not_done"
    /\ run_outcome # "none" =>
          /\ success = (run_outcome = "true")
          /\ run_outcome = "true" <=>
                (stepLog[todo_index] # <<>> /\ Last(stepLog[todo_index]) = "done")
          /\ run_outcome = "false" <=>
                (/\ Len(stepLog[todo_index]) = max_steps
                 /\ AllNotDone(stepLog[todo_index]))

C13_Witness ==
    /\ todos >= 2
    /\ max_steps = 3
    /\ stepLog[0] = <<"not_done", "done">>
    /\ status[0] = "completed"
    /\ todo_index = 1
    /\ run_outcome = "false"
    /\ ~success
    /\ stepLog[1] = <<"not_done", "not_done", "not_done">>

Starts == {p \in DOMAIN observer : observer[p][1] = "start"}
Ends == {p \in DOMAIN observer : observer[p][1] = "end"}

\* The events are well-formed: todos start in ascending index order, every
\* todo-end directly follows the todo-start of the same todo, and every event
\* is about a todo that was started.
EventsWellFormed ==
    /\ \A p, q \in Starts : p < q => observer[p][2] < observer[q][2]
    /\ \A p \in Ends : p > 1 /\ observer[p - 1] = <<"start", observer[p][2]>>
    /\ \A p \in DOMAIN observer :
          observer[p][2] \in Indices /\ status[observer[p][2]] # "pending"

EndFollows(p) ==
    p < Len(observer) /\ observer[p + 1] = <<"end", observer[p][2]>>

\* C14 as stated: todos start in ascending order and every todo-start of todo
\* k is followed by the todo-end of k before any other todo-start (the last
\* event may be a todo-start only while that todo is being executed).
C14_StrictAlternation ==
    /\ EventsWellFormed
    /\ \A p \in Starts :
          \/ EndFollows(p)
          \/ p = Len(observer) /\ pc \in {"execute_todo", "end_event"}

\* C14 amended: todos start in ascending order, every todo-end directly follows
\* the todo-start of its todo, no event is about a todo never started, and the
\* todo-start of todo k is directly followed by the todo-end of k whenever
\* _execute_todo returned (true or false). When an exception leaves the todo's
\* execution, no todo-end is emitted for it: the todo stays in_progress and,
\* under @retry, the next attempt's todo-start comes next.
C14_AlternationUnlessRaised ==
    /\ EventsWellFormed
    /\ \A p \in Starts :
          LET k == observer[p][2] IN
          /\ (status[k] \in {"completed", "skipped"}
              /\ ~(pc = "end_event" /\ todo_index = k)) => EndFollows(p)
          /\ ~EndFollows(p) =>
                \/ p = Len(observer) /\ pc \in {"execute_todo", "end_event"}
                \/ status[k] = "in_progress" /\ raised # <<>>
    /\ Cardinality({p \in Starts : ~EndFollows(p)}) <= Len(raised) + 1

C14_Witness ==
    /\ has_retry
    /\ attempt = 2
    /\ pc = "done"
    /\ observer = <<SplitEvent("start", 0), SplitEvent("start", 1),
                    SplitEvent("end", 1), SplitEvent("start", 2),
                    SplitEvent("end", 2)>>

C16_RetryOnlyAfterException ==
    /\ pc = "call" => (Len(raised) = attempt /\ Len(waits) = attempt)
    /\ result = "returned" =>
          /\ Len(raised) = attempt - 1
          /\ Len(waits) = attempt - 1
          /\ pc \in {"app_ok", "app_final_check", "app_export", "done",
                     "crashed"}

C16_Witness ==
    /\ has_retry
    /\ pc = "done"
    /\ result = "returned"
    /\ ~overall_success
    /\ attempt = 1
    /\ waits = <<>>
    /\ todos = 2
    /\ status = (0 :> "completed" @@ 1 :> "skipped")

Completed == {i \in Indices : status[i] = "completed"}

\* C17: in QATaskerAgent.execute the check after a todo is made if and only if
\* the todo's execution returned success: qa_result never holds an entry for a
\* todo that is not completed, and when execute() returns it holds an entry for
\* every completed todo, none for the failed todo and none for a later one.
C17_VerifiedIffSucceeded ==
    /\ qa_result \subseteq Completed
    /\ ~has_checkers => qa_result = {}
    /\ (has_checkers /\ result = "returned") => qa_result = Completed

C17_Witness ==
    /\ has_checkers
    /\ result = "returned"
    /\ todos = 3
    /\ qa_result = {0, 1}
    /\ status[2] = "skipped"
    /\ ~overall_success

Terminated == pc \in {"done", "crashed"}

\* 3 under @retry, 1 for the scripts, which call execute() once
MaxAttempts == IF has_retry THEN StopAfterAttempt ELSE 1

\* C18: every invocation terminates: the program eventually ends with a result
\* or an exception, after at most max_attempts * len(todos) * max_steps steps.
C18_Terminates ==
    /\ <>Terminated
    /\ [](total_steps <= MaxAttempts * todos * max_steps)

C18_Witness ==
    /\ has_retry
    /\ Terminated
    /\ attempt = 3
    /\ todos >= 2
    /\ max_steps >= 2
    /\ total_steps = todos * max_steps

====
